---- MODULE Spec2Model ----
(***************************************************************************)
(* The fail point of mongo/util/fail_point.h: a FailPoint object shared by *)
(* threads that check it (MONGO_FAIL_POINT, MONGO_FAIL_POINT_BLOCK) and by *)
(* threads that reconfigure it (setMode).                                  *)
(*                                                                         *)
(* The header gives the inline code of shouldFail, shouldFailOpenBlock and *)
(* ScopedFailPoint::isActive.  The bodies of setMode, slowShouldFail-      *)
(* OpenBlock, shouldFailCloseBlock, disableFailPoint, getData and of the   *)
(* constructors and the destructor are only declared there; they are       *)
(* modelled from the design document (spec.md, sections 3 to 6).           *)
(*                                                                         *)
(* Granularity.  Every access to _fpInfo is a step of its own.  A thread   *)
(* acquires configLock in the step of its first access under the lock and  *)
(* releases it in the step of its last one.  _mode and _timesOrPeriod are  *)
(* read under the lock only, so setMode writes them in one step; _data is  *)
(* read by getData() without the lock, so its write is a step of its own.  *)
(*                                                                         *)
(* The fields observed, incs, closes, opens, trues, seen, got and sub of a *)
(* checking thread, pending and hadOpen of a setMode thread, and hist are  *)
(* history: they record what happened and no step of the program depends   *)
(* on them.                                                                *)
(***************************************************************************)
EXTENDS Integers, FiniteSets, TLC

\* ------------------------------------------------------------ bounds
MaxTimes == 2          \* largest val handed to setMode(nTimes, val)

\* the threads: two that run checks over and over, and two administrative
\* callers that each call setMode once
Checkers == {"c1", "c2"}
Setters == {"s1", "s2"}

\* ------------------------------------------------------------ types
\* enum Mode { off, alwaysOn, random, nTimes, numModes }
Mode == {"off", "alwaysOn", "random", "nTimes"}
\* enum RetCode { fastOff = 0, slowOff, slowOn }
RetCode == {"fastOff", "slowOff", "slowOn"}
\* the arguments of the setMode calls the model makes: only nTimes counts val
\* down, so the calls with another mode pass the default val = 0.  The payload
\* is opaque: caller s passes a document of its own, written s here, which no
\* other call passes
SetModeArgs ==
    { a \in [mode : Mode, val : 0..MaxTimes] : a.mode # "nTimes" => a.val = 0 }

VARIABLES
    fpInfo,         \* _fpInfo: [active |-> bit 31, ref |-> bits 0..30]
    mode,           \* _mode
    timesOrPeriod,  \* _timesOrPeriod
    data,           \* _data
    modMutex,       \* _modMutex: TRUE while some thread holds it
    ck,             \* per checking thread: its position, locals and history
    st,             \* per setMode thread: its position, arguments and history
    hist            \* history of the configuration (who wrote what, what fired)

vars == <<fpInfo, mode, timesOrPeriod, data, modMutex, ck, st, hist>>

\* ------------------------------------------------------------ the state word
\* static const ValType REF_COUNTER_MASK = ~ACTIVE_BIT: the largest ref count
REF_COUNTER_MASK == 2147483647

\* AtomicUInt32::addAndFetch(1) on the packed word: a carry out of bit 30
\* flips bit 31
AddAndFetch(w) ==
    IF w.ref = REF_COUNTER_MASK
    THEN [active |-> ~w.active, ref |-> 0]
    ELSE [w EXCEPT !.ref = @ + 1]

\* shouldFailCloseBlock: decrements the reference counter
\* (AtomicUInt32::subtractAndFetch(1): a borrow from bit 31 flips it)
shouldFailCloseBlock(w) ==
    IF w.ref = 0
    THEN [active |-> ~w.active, ref |-> REF_COUNTER_MASK]
    ELSE [w EXCEPT !.ref = @ - 1]

\* disableFailPoint: clears the activation bit, keeps the ref count
disableFailPoint(w) == [w EXCEPT !.active = FALSE]

\* ------------------------------------------------------------ checking threads
\* BSONObj(): the empty document of the constructor
EmptyDoc == "empty"
\* no document read yet
NoData == "none"
\* no setMode call
NoCall == "ctor"

\* a checking thread that is not inside any operation
IdleChecker ==
    [pc |-> "idle", op |-> "none", ret |-> "none", result |-> FALSE,
     once |-> FALSE, shouldClose |-> FALSE,
     observed |-> FALSE, incs |-> 0, closes |-> 0, opens |-> 0,
     trues |-> 0, seen |-> {}, got |-> NoData, sub |-> FALSE]

\* no setMode call is in progress
NoSetModeRunning == \A s \in Setters : st[s].pc \in {"idle", "returned"}

\* a check that starts now is subsequent to every setMode call made so far:
\* one has returned and none is in progress
Subsequent == NoSetModeRunning /\ \E s \in Setters : st[s].pc = "returned"

\* a slip in shouldFail(): it closes the block whatever the open returned
ShouldFailAfterOpen_AlwaysClose(k, r) ==
    [k EXCEPT !.pc = "sf_close", !.ret = r]

\* a slip in shouldFail(): closes only the check that fired
ShouldFailAfterOpen_CloseOnlyIfOn(k, r) ==
    IF r # "slowOn"
    THEN [k EXCEPT !.pc = "done", !.ret = r, !.result = FALSE]
    ELSE [k EXCEPT !.pc = "sf_close", !.ret = r]

\* shouldFail(), lines 76..81: what it does with the RetCode of the open
ShouldFailAfterOpen(k, r) ==
    IF r = "fastOff"
    THEN [k EXCEPT !.pc = "done", !.ret = r, !.result = FALSE]
    ELSE [k EXCEPT !.pc = "sf_close", !.ret = r]

\* a slip in isActive(): _shouldClose = (ret == slowOn)
IsActiveAfterOpen_CloseOnlyIfOn(k, r) ==
    [k EXCEPT !.ret = r,
              !.shouldClose = (r = "slowOn"),
              !.result = (r = "slowOn"),
              !.trues = @ + (IF r = "slowOn" THEN 1 ELSE 0),
              !.pc = IF r = "slowOn" THEN "body" ELSE "guard"]

\* ScopedFailPoint::isActive(), lines 179..180
IsActiveAfterOpen(k, r) ==
    [k EXCEPT !.ret = r,
              !.shouldClose = (r # "fastOff"),
              !.result = (r = "slowOn"),
              !.trues = @ + (IF r = "slowOn" THEN 1 ELSE 0),
              !.pc = IF r = "slowOn" THEN "body" ELSE "guard"]

\* shouldFailOpenBlock returns r to whichever inline caller opened the check
Returned(k, r) ==
    IF k.op = "shouldFail" THEN ShouldFailAfterOpen(k, r) ELSE IsActiveAfterOpen(k, r)

\* a slip in shouldFailOpenBlock(): the test of ACTIVE_BIT inverted
shouldFailOpenBlock_Inverted(k) ==
    IF fpInfo.active
    THEN Returned([k EXCEPT !.opens = @ + 1, !.observed = TRUE], "fastOff")
    ELSE [k EXCEPT !.opens = @ + 1, !.observed = FALSE, !.pc = "slow"]

\* a slip in shouldFailOpenBlock(): no fast path, every check goes the slow way
shouldFailOpenBlock_NoFastPath(k) ==
    [k EXCEPT !.opens = @ + 1, !.observed = fpInfo.active, !.pc = "slow"]

\* shouldFailOpenBlock(), lines 91..98: the fast path, one load of _fpInfo
shouldFailOpenBlock(k) ==
    IF ~fpInfo.active
    THEN Returned([k EXCEPT !.opens = @ + 1, !.observed = FALSE], "fastOff")
    ELSE [k EXCEPT !.opens = @ + 1, !.observed = TRUE, !.pc = "slow"]

\* shouldFail(), line 74: MONGO_FAIL_POINT(symbol)
shouldFail(c) ==
    /\ ck[c].pc \in {"idle", "done"}
    /\ ck' = [ck EXCEPT ![c] = shouldFailOpenBlock(
                  [IdleChecker EXCEPT !.op = "shouldFail", !.sub = Subsequent])]
    /\ UNCHANGED <<fpInfo, mode, timesOrPeriod, data, modMutex, st, hist>>

\* history: the check of c is closed, so no setMode call waits for it any more
Closed(c) == [s \in Setters |-> [st[s] EXCEPT !.pending = @ \ {c}]]

\* shouldFail(), lines 80..81: the close and the return
ShouldFailClose(c) ==
    /\ ck[c].pc = "sf_close"
    /\ fpInfo' = shouldFailCloseBlock(fpInfo)
    /\ ck' = [ck EXCEPT ![c].pc = "done", ![c].closes = @ + 1,
                        ![c].result = (ck[c].ret = "slowOn")]
    /\ st' = Closed(c)
    /\ UNCHANGED <<mode, timesOrPeriod, data, modMutex, hist>>

\* ScopedFailPoint::ScopedFailPoint(FailPoint*): MONGO_FAIL_POINT_BLOCK(symbol)
ScopedFailPoint(c) ==
    /\ ck[c].pc \in {"idle", "done"}
    /\ ck' = [ck EXCEPT ![c] = [IdleChecker EXCEPT !.op = "block", !.pc = "guard"]]
    /\ UNCHANGED <<fpInfo, mode, timesOrPeriod, data, modMutex, st, hist>>

\* a slip in isActive(): _once is never set
isActive_NoOnce(c) ==
    /\ ck[c].pc = "guard"
    /\ ck' = [ck EXCEPT ![c] =
                IF ck[c].once
                THEN [ck[c] EXCEPT !.result = FALSE]
                ELSE shouldFailOpenBlock([ck[c] EXCEPT !.sub = Subsequent])]
    /\ UNCHANGED <<fpInfo, mode, timesOrPeriod, data, modMutex, st, hist>>

\* ScopedFailPoint::isActive(), lines 171..181
isActive(c) ==
    /\ ck[c].pc = "guard"
    /\ ck' = [ck EXCEPT ![c] =
                IF ck[c].once
                THEN [ck[c] EXCEPT !.result = FALSE]
                ELSE shouldFailOpenBlock(
                       [ck[c] EXCEPT !.once = TRUE, !.sub = Subsequent])]
    /\ UNCHANGED <<fpInfo, mode, timesOrPeriod, data, modMutex, st, hist>>

\* getData(), called in the body of MONGO_FAIL_POINT_BLOCK (lines 49..52)
getData(c) ==
    /\ ck[c].pc = "body"
    /\ ck' = [ck EXCEPT ![c].got = data, ![c].seen = @ \cup {data}]
    /\ UNCHANGED <<fpInfo, mode, timesOrPeriod, data, modMutex, st, hist>>

\* the body of MONGO_FAIL_POINT_BLOCK ends; the for loop evaluates isActive again
BodyEnd(c) ==
    /\ ck[c].pc = "body"
    /\ ck' = [ck EXCEPT ![c].pc = "guard"]
    /\ UNCHANGED <<fpInfo, mode, timesOrPeriod, data, modMutex, st, hist>>

\* ScopedFailPoint::~ScopedFailPoint(): closes if a close is owed
ScopedFailPointDtor(c) ==
    /\ ck[c].pc \in {"guard", "body"}
    /\ IF ck[c].shouldClose
       THEN /\ fpInfo' = shouldFailCloseBlock(fpInfo)
            /\ ck' = [ck EXCEPT ![c].pc = "done", ![c].closes = @ + 1,
                                ![c].seen = {}, ![c].got = NoData]
            /\ st' = Closed(c)
       ELSE /\ ck' = [ck EXCEPT ![c].pc = "done", ![c].seen = {}, ![c].got = NoData]
            /\ UNCHANGED <<fpInfo, st>>
    /\ UNCHANGED <<mode, timesOrPeriod, data, modMutex, hist>>

\* slowShouldFailOpenBlock, first step: the atomic increment of the ref count;
\* the word it fetches decides between slowOff and the mode evaluation
SlowInc(c) ==
    /\ ck[c].pc = "slow"
    /\ fpInfo' = AddAndFetch(fpInfo)
    /\ ck' = [ck EXCEPT ![c] =
                IF ~fpInfo'.active
                THEN Returned([ck[c] EXCEPT !.incs = @ + 1], "slowOff")
                ELSE [ck[c] EXCEPT !.incs = @ + 1, !.pc = "eval"]]
    /\ UNCHANGED <<mode, timesOrPeriod, data, modMutex, st, hist>>

\* the history of a slow-path evaluation: the setMode call whose mode and
\* modeValue it read
Evaluated(k) == [k EXCEPT !.seen = @ \cup {hist.writer}]

\* the history of the checks that fired under the present configuration
Fired(h, k, r) ==
    IF r = "slowOn" /\ k.sub /\ h.fired <= MaxTimes
    THEN [h EXCEPT !.fired = @ + 1] ELSE h

\* a slip in the nTimes countdown: the fail point disables itself one check late
SlowEval_OffByOne(c) ==
    /\ ck[c].pc = "eval"
    /\ ~modMutex
    /\ \/ /\ mode = "alwaysOn"
          /\ ck' = [ck EXCEPT ![c] = Returned(Evaluated(ck[c]), "slowOn")]
          /\ hist' = Fired(hist, ck[c], "slowOn")
          /\ UNCHANGED <<timesOrPeriod, modMutex>>
       \/ /\ mode = "random"
          /\ \E r \in {"slowOn", "slowOff"} :
                /\ ck' = [ck EXCEPT ![c] = Returned(Evaluated(ck[c]), r)]
                /\ hist' = Fired(hist, ck[c], r)
          /\ UNCHANGED <<timesOrPeriod, modMutex>>
       \/ /\ mode = "nTimes"
          /\ timesOrPeriod' = timesOrPeriod - 1
          /\ IF timesOrPeriod' < 0
             THEN /\ ck' = [ck EXCEPT ![c] =
                              [Evaluated(ck[c]) EXCEPT !.pc = "disable"]]
                  /\ modMutex' = TRUE
             ELSE /\ ck' = [ck EXCEPT ![c] =
                              Returned(Evaluated(ck[c]), "slowOn")]
                  /\ UNCHANGED modMutex
          /\ hist' = Fired(hist, ck[c], "slowOn")
       \/ /\ mode = "off"
          /\ ck' = [ck EXCEPT ![c] = Returned(Evaluated(ck[c]), "slowOff")]
          /\ UNCHANGED <<timesOrPeriod, modMutex, hist>>
    /\ UNCHANGED <<fpInfo, mode, data, st>>

\* a slip in the random mode: a check that fires counts modeValue down
SlowEval_RandomCounts(c) ==
    /\ ck[c].pc = "eval"
    /\ ~modMutex
    /\ \/ /\ mode = "alwaysOn"
          /\ ck' = [ck EXCEPT ![c] = Returned(Evaluated(ck[c]), "slowOn")]
          /\ hist' = Fired(hist, ck[c], "slowOn")
          /\ UNCHANGED <<timesOrPeriod, modMutex>>
       \/ /\ mode = "random"
          /\ \E r \in {"slowOn", "slowOff"} :
                /\ ck' = [ck EXCEPT ![c] = Returned(Evaluated(ck[c]), r)]
                /\ hist' = Fired(hist, ck[c], r)
                /\ timesOrPeriod' = IF r = "slowOn" THEN timesOrPeriod - 1 ELSE timesOrPeriod
          /\ UNCHANGED modMutex
       \/ /\ mode = "nTimes"
          /\ timesOrPeriod' = timesOrPeriod - 1
          /\ IF timesOrPeriod' <= 0
             THEN /\ ck' = [ck EXCEPT ![c] =
                              [Evaluated(ck[c]) EXCEPT !.pc = "disable"]]
                  /\ modMutex' = TRUE
             ELSE /\ ck' = [ck EXCEPT ![c] =
                              Returned(Evaluated(ck[c]), "slowOn")]
                  /\ UNCHANGED modMutex
          /\ hist' = Fired(hist, ck[c], "slowOn")
       \/ /\ mode = "off"
          /\ ck' = [ck EXCEPT ![c] = Returned(Evaluated(ck[c]), "slowOff")]
          /\ UNCHANGED <<timesOrPeriod, modMutex, hist>>
    /\ UNCHANGED <<fpInfo, mode, data, st>>

\* slowShouldFailOpenBlock: the mode semantics, evaluated under configLock
\* (acquired here, and released here unless the fail point must disable itself)
\*   alwaysOn: fires;  random: fires or not, by the draw;
\*   nTimes: fires and decrements modeValue, and disables the fail point when
\*           the count is used up;  off: does not fire
SlowEval(c) ==
    /\ ck[c].pc = "eval"
    /\ ~modMutex
    /\ \/ /\ mode = "alwaysOn"
          /\ ck' = [ck EXCEPT ![c] = Returned(Evaluated(ck[c]), "slowOn")]
          /\ hist' = Fired(hist, ck[c], "slowOn")
          /\ UNCHANGED <<timesOrPeriod, modMutex>>
       \/ /\ mode = "random"
          /\ \E r \in {"slowOn", "slowOff"} :
                /\ ck' = [ck EXCEPT ![c] = Returned(Evaluated(ck[c]), r)]
                /\ hist' = Fired(hist, ck[c], r)
          /\ UNCHANGED <<timesOrPeriod, modMutex>>
       \/ /\ mode = "nTimes"
          /\ timesOrPeriod' = timesOrPeriod - 1
          /\ IF timesOrPeriod' <= 0
             THEN /\ ck' = [ck EXCEPT ![c] =
                              [Evaluated(ck[c]) EXCEPT !.pc = "disable"]]
                  /\ modMutex' = TRUE
             ELSE /\ ck' = [ck EXCEPT ![c] =
                              Returned(Evaluated(ck[c]), "slowOn")]
                  /\ UNCHANGED modMutex
          /\ hist' = Fired(hist, ck[c], "slowOn")
       \/ /\ mode = "off"
          /\ ck' = [ck EXCEPT ![c] = Returned(Evaluated(ck[c]), "slowOff")]
          /\ UNCHANGED <<timesOrPeriod, modMutex, hist>>
    /\ UNCHANGED <<fpInfo, mode, data, st>>

\* nTimes used up: the fail point disables itself in the same evaluation, then
\* releases configLock and returns slowOn
SlowDisable(c) ==
    /\ ck[c].pc = "disable"
    /\ fpInfo' = disableFailPoint(fpInfo)
    /\ modMutex' = FALSE
    /\ ck' = [ck EXCEPT ![c] = Returned(ck[c], "slowOn")]
    /\ UNCHANGED <<mode, timesOrPeriod, data, st, hist>>

\* the checks that hold the ref count: incremented and not yet closed
Open(c) ==
    \/ ck[c].pc \in {"eval", "disable", "sf_close"}
    \/ ck[c].pc \in {"guard", "body"} /\ ck[c].shouldClose

Holders == {c \in Checkers : Open(c)}

\* ------------------------------------------------------------ setMode threads
IdleSetter ==
    [pc |-> "idle", mode |-> "off", val |-> 0, pending |-> {}, hadOpen |-> FALSE]

\* setMode, step 1: clears activationFlag
setMode(s, a) ==
    /\ st[s].pc = "idle"
    /\ fpInfo' = disableFailPoint(fpInfo)
    /\ st' = [st EXCEPT ![s] =
                [pc |-> "drain", mode |-> a.mode, val |-> a.val,
                 pending |-> Holders, hadOpen |-> (Holders # {})]]
    /\ ck' = [c \in Checkers |-> [ck[c] EXCEPT !.sub = FALSE]]
    /\ UNCHANGED <<mode, timesOrPeriod, data, modMutex, hist>>

\* a slip in setMode: it does not wait for the open checks
SetModeDrain_NoWait(s) ==
    /\ st[s].pc = "drain"
    /\ st' = [st EXCEPT ![s].pc = "lock"]
    /\ UNCHANGED <<fpInfo, mode, timesOrPeriod, data, modMutex, ck, hist>>

\* setMode, step 2: waits until refCount is zero
SetModeDrain(s) ==
    /\ st[s].pc = "drain"
    /\ fpInfo.ref = 0
    /\ st' = [st EXCEPT ![s].pc = "lock"]
    /\ UNCHANGED <<fpInfo, mode, timesOrPeriod, data, modMutex, ck, hist>>

\* a slip in setMode: it writes without taking configLock
SetModeWrite_NoLock(s) ==
    /\ st[s].pc = "lock"
    /\ modMutex' = TRUE
    /\ mode' = st[s].mode
    /\ timesOrPeriod' = st[s].val
    /\ hist' = [hist EXCEPT !.writer = s, !.fired = 0, !.n = st[s].val]
    /\ st' = [st EXCEPT ![s].pc = "w_data"]
    /\ UNCHANGED <<fpInfo, data, ck>>

\* setMode, step 3: acquires configLock and writes the new mode and modeValue
SetModeWrite(s) ==
    /\ st[s].pc = "lock"
    /\ ~modMutex
    /\ modMutex' = TRUE
    /\ mode' = st[s].mode
    /\ timesOrPeriod' = st[s].val
    /\ hist' = [hist EXCEPT !.writer = s, !.fired = 0, !.n = st[s].val]
    /\ st' = [st EXCEPT ![s].pc = "w_data"]
    /\ UNCHANGED <<fpInfo, data, ck>>

\* setMode, steps 3 and 4: writes the new payload and releases configLock
SetModeWriteData(s) ==
    /\ st[s].pc = "w_data"
    /\ data' = s
    /\ modMutex' = FALSE
    /\ st' = [st EXCEPT ![s].pc = "activate"]
    /\ UNCHANGED <<fpInfo, mode, timesOrPeriod, ck, hist>>

\* setMode, step 5: sets activationFlag if the new mode is not off, and returns
SetModeActivate(s) ==
    /\ st[s].pc = "activate"
    /\ fpInfo' = IF st[s].mode # "off" THEN [fpInfo EXCEPT !.active = TRUE] ELSE fpInfo
    /\ st' = [st EXCEPT ![s] = [IdleSetter EXCEPT !.pc = "returned"]]
    /\ hist' = [hist EXCEPT !.lastExtra = s]
    /\ UNCHANGED <<mode, timesOrPeriod, data, modMutex, ck>>

\* ------------------------------------------------------------ the system
\* FailPoint::FailPoint(): mode off, refCount 0, not active, no payload
Init ==
    /\ fpInfo = [active |-> FALSE, ref |-> 0]
    /\ mode = "off"
    /\ timesOrPeriod = 0
    /\ data = EmptyDoc
    /\ modMutex = FALSE
    /\ ck = [c \in Checkers |-> IdleChecker]
    /\ st = [s \in Setters |-> IdleSetter]
    /\ hist = [writer |-> NoCall, fired |-> 0, n |-> 0, lastExtra |-> EmptyDoc]

Next ==
    \/ \E c \in Checkers : shouldFail(c)
    \/ \E c \in Checkers : ShouldFailClose(c)
    \/ \E c \in Checkers : ScopedFailPoint(c)
    \/ \E c \in Checkers : isActive(c)
    \/ \E c \in Checkers : getData(c)
    \/ \E c \in Checkers : BodyEnd(c)
    \/ \E c \in Checkers : ScopedFailPointDtor(c)
    \/ \E c \in Checkers : SlowInc(c)
    \/ \E c \in Checkers : SlowEval(c)
    \/ \E c \in Checkers : SlowDisable(c)
    \/ \E s \in Setters : \E a \in SetModeArgs : setMode(s, a)
    \/ \E s \in Setters : SetModeDrain(s)
    \/ \E s \in Setters : SetModeWrite(s)
    \/ \E s \in Setters : SetModeWriteData(s)
    \/ \E s \in Setters : SetModeActivate(s)

Spec == Init /\ [][Next]_vars

\* Fair scheduling: a thread that is inside a call takes its next step, and a
\* call site that owes a close makes it. Calling shouldFail, entering a
\* MONGO_FAIL_POINT_BLOCK, calling isActive() or getData() and calling setMode
\* are the callers' choice and are not forced. The wait of setMode is a poll of
\* refCount, so it is only weakly fair: it ends if refCount stays at zero, and
\* a poll may miss a moment at which it is zero
FairSpec ==
    /\ Spec
    /\ \A c \in Checkers :
          /\ WF_vars(SlowInc(c))
          /\ WF_vars(SlowEval(c))
          /\ WF_vars(SlowDisable(c))
          /\ WF_vars(ShouldFailClose(c))
          /\ WF_vars(ScopedFailPointDtor(c))
    /\ \A s \in Setters :
          /\ WF_vars(SetModeDrain(s))
          /\ WF_vars(SetModeWrite(s))
          /\ WF_vars(SetModeWriteData(s))
          /\ WF_vars(SetModeActivate(s))

\* ------------------------------------------------------------ the claims

\* a check of c has returned to its call site
HasReturned(c) == ck[c].ret # "none" /\ ck[c].pc \in {"sf_close", "done", "guard", "body"}

\* C1: after setMode(nTimes, N) has returned, and until setMode is called
\* again, exactly N of the checks started since fire: never more than N, and a
\* check that does not fire is one that came after the N that did
C1_ExactlyNFire ==
    (NoSetModeRunning /\ mode = "nTimes") =>
        /\ hist.fired <= hist.n
        /\ \A c \in Checkers :
              (ck[c].sub /\ HasReturned(c) /\ ck[c].ret # "slowOn") => hist.fired = hist.n

C3_NoTornRead ==
    \A c \in Checkers : Cardinality(ck[c].seen) <= 1

\* C4: after setMode(alwaysOn) has returned, and until setMode is called again,
\* every check started since fires: the open returns slowOn, shouldFail true
C4_AlwaysOnFires ==
    (NoSetModeRunning /\ mode = "alwaysOn") =>
        \A c \in Checkers :
            (ck[c].sub /\ HasReturned(c)) =>
                /\ ck[c].ret = "slowOn"
                /\ (ck[c].op = "shouldFail" /\ ck[c].pc = "done") => ck[c].result
                /\ ck[c].op = "block" => ck[c].trues = 1

C4_Witness ==
    /\ NoSetModeRunning /\ mode = "alwaysOn"
    /\ \E c \in Checkers :
          ck[c].sub /\ ck[c].op = "shouldFail" /\ ck[c].pc = "done" /\ ck[c].result
    /\ \E c \in Checkers : ck[c].sub /\ ck[c].op = "block" /\ ck[c].pc = "body"

\* C5: while setMode has never been called on the fail point, every
\* shouldFail returns false and every shouldFailOpenBlock returns fastOff
C5_FreshReportsFalse ==
    (\A s \in Setters : st[s].pc = "idle") =>
        \A c \in Checkers :
            /\ ck[c].ret \in {"none", "fastOff"}
            /\ ~ck[c].result
            /\ ck[c].pc \in {"idle", "done", "guard"}

C5_Witness ==
    /\ \A s \in Setters : st[s].pc = "idle"
    /\ \E c \in Checkers : ck[c].op = "shouldFail" /\ ck[c].pc = "done"
    /\ \E c \in Checkers : ck[c].op = "block" /\ ck[c].ret = "fastOff"

\* C6: in a check that fired and is still open, getData() returns the payload
\* of the most recent setMode call: the call that returned last, or the call
\* that wrote last if it has returned; never the payload of a call still running
C6_DataIsLatestPayload ==
    \A c \in Checkers :
        (ck[c].pc = "body" /\ ck[c].got # NoData) =>
            \/ ck[c].got = hist.lastExtra
            \/ ck[c].got = hist.writer /\ ck[c].got \in Setters /\ st[hist.writer].pc = "returned"

\* C7: on one ScopedFailPoint, isActive() opens a check at most once, on its
\* first call, and returns true at most once: exactly when that open returned
\* slowOn
C7_ActiveAtMostOnce ==
    \A c \in Checkers :
        ck[c].op = "block" =>
            /\ ck[c].opens <= 1
            /\ ck[c].trues <= 1
            /\ ck[c].once <=> (ck[c].opens = 1)
            /\ HasReturned(c) => (ck[c].trues = 1 <=> ck[c].ret = "slowOn")

\* a second isActive() returned false on a guard whose first one returned
\* true, while the fail point was still active
C7_Witness ==
    \E c \in Checkers :
        /\ ck[c].op = "block" /\ ck[c].pc = "guard"
        /\ ck[c].trues = 1 /\ ~ck[c].result
        /\ fpInfo.active /\ mode = "alwaysOn"

\* C8: a destroyed ScopedFailPoint has called shouldFailCloseBlock exactly
\* once if its open returned slowOff or slowOn, and not at all if it returned
\* fastOff or isActive() was never called; a live one has not called it; so
\* the guard has decremented refCount as often as it incremented it
C8_GuardClosesOnce ==
    \A c \in Checkers :
        ck[c].op = "block" =>
            IF ck[c].pc = "done"
            THEN /\ ck[c].closes = (IF ck[c].ret \in {"slowOff", "slowOn"} THEN 1 ELSE 0)
                 /\ ck[c].incs = ck[c].closes
            ELSE ck[c].closes = 0

C8_Witness ==
    /\ \E c \in Checkers :
          ck[c].op = "block" /\ ck[c].pc = "done" /\ ck[c].ret = "slowOff" /\ ck[c].closes = 1
    /\ \E c \in Checkers :
          ck[c].op = "block" /\ ck[c].pc = "done" /\ ck[c].ret = "fastOff" /\ ck[c].closes = 0

\* a step of c that is not a step of setMode
StepOf(c) == ck'[c] # ck[c] /\ st' = st

\* C9: a shouldFailOpenBlock that loads the state word with the activation
\* bit clear returns fastOff and leaves refCount, activationFlag, mode,
\* modeValue and payload unchanged; refCount is incremented, by exactly one
\* and with the activation bit untouched, only by a check whose load saw the
\* bit set, and that check returns slowOn or slowOff
C9_FastOffHasNoEffect ==
    [][\A c \in Checkers :
          /\ (StepOf(c) /\ ck'[c].ret = "fastOff") =>
                /\ ~ck'[c].observed
                /\ ck'[c].incs = 0
                /\ UNCHANGED <<fpInfo, mode, timesOrPeriod, data>>
          /\ (StepOf(c) /\ ck'[c].incs > ck[c].incs) =>
                /\ ck[c].observed
                /\ ck'[c].incs = 1
                /\ fpInfo'.ref = fpInfo.ref + 1
                /\ fpInfo'.active = fpInfo.active
                /\ ck'[c].ret \in {"none", "slowOff"}
          /\ (StepOf(c) /\ ck'[c].ret \in {"slowOff", "slowOn"}) => ck'[c].incs = 1
      ]_vars

C9_Witness ==
    /\ \E c \in Checkers : ck[c].ret = "fastOff" /\ ck[c].pc = "guard"
    /\ \E c \in Checkers : ck[c].ret = "slowOff" /\ ck[c].incs = 1
    /\ fpInfo.ref = 1

\* C10: shouldFail() has returned true iff its open returned slowOn, false for
\* fastOff and slowOff; it has closed exactly when the open did not return
\* fastOff, so on return it has decremented refCount as often as it
\* incremented it, at most once
C10_ShouldFailIsOpenThenClose ==
    \A c \in Checkers :
        (ck[c].op = "shouldFail" /\ ck[c].pc = "done") =>
            /\ ck[c].result <=> (ck[c].ret = "slowOn")
            /\ ck[c].closes = (IF ck[c].ret = "fastOff" THEN 0 ELSE 1)
            /\ ck[c].incs = ck[c].closes

C10_Witness ==
    /\ \E c \in Checkers :
          ck[c].op = "shouldFail" /\ ck[c].pc = "done" /\ ck[c].ret = "slowOff"
    /\ \E c \in Checkers :
          ck[c].op = "shouldFail" /\ ck[c].pc = "done" /\ ck[c].ret = "slowOn" /\ ck[c].result

\* C11: the writes of two setMode calls never interleave: at most one call is
\* between its write of mode and modeValue and its write of payload, and
\* whenever none is, payload is the payload of the call that wrote mode and
\* modeValue last, modeValue is that call's value (counted down by nTimes
\* checks only), and a mode that takes no value has none
C11_WritesSerialized ==
    /\ Cardinality({s \in Setters : st[s].pc = "w_data"}) <= 1
    /\ (\A s \in Setters : st[s].pc # "w_data") =>
          /\ data = (IF hist.writer = NoCall THEN EmptyDoc ELSE hist.writer)
          /\ timesOrPeriod <= hist.n
          /\ mode # "nTimes" => (timesOrPeriod = 0 /\ hist.n = 0)
          /\ hist.writer = NoCall => mode = "off"

\* two concurrent calls have both returned, and the call that returned last is
\* not the call that wrote last
C11_Witness ==
    /\ \A s \in Setters : st[s].pc = "returned"
    /\ hist.writer \in Setters /\ data = hist.writer
    /\ hist.lastExtra # hist.writer
    /\ mode = "nTimes"

\* C12: an open check ends only by its close, and for as long as it stays
\* open refCount stays above zero and no setMode call that has not yet seen
\* refCount at zero gets past its wait: it never writes and never returns.
\* So a check that is never closed blocks every later setMode call for ever
C12_UnclosedCheckBlocksSetMode ==
    [][\A c \in Checkers :
          Open(c) =>
              /\ Open(c)' \/ ck'[c].closes = ck[c].closes + 1
              /\ Open(c)' =>
                    /\ fpInfo.ref > 0 /\ fpInfo'.ref > 0
                    /\ \A s \in Setters :
                          st[s].pc \in {"idle", "drain"} => st'[s].pc \in {"idle", "drain"}
      ]_vars

\* a check that returned slowOn is still open, under the configuration of a
\* call that has returned, while a setMode call started after the open waits
C12_Witness ==
    /\ \E c \in Checkers : ck[c].pc = "body" /\ ck[c].ret = "slowOn" /\ ck[c].shouldClose
    /\ \E s \in Setters : st[s].pc = "returned"
    /\ \E s \in Setters : st[s].pc = "drain" /\ st[s].hadOpen

\* C13: under fair scheduling, with every open check eventually closed, every
\* setMode call that has been made eventually returns
C13_SetModeReturns ==
    \A s \in Setters : (st[s].pc = "drain") ~> (st[s].pc = "returned")

\* C14: an evaluation in nTimes mode fires and decrements modeValue by exactly
\* one; the evaluation that brings modeValue to zero goes on, still holding
\* configLock and with mode and modeValue untouched meanwhile, to clear
\* activationFlag itself, with no step of setMode, so that activationFlag is
\* false when that check returns slowOn
C14_NTimesCountsDownAndDisables ==
    [][\A c \in Checkers :
          /\ (ck[c].pc = "eval" /\ ck'[c].pc # "eval" /\ mode = "nTimes") =>
                /\ timesOrPeriod' = timesOrPeriod - 1
                /\ ck'[c].pc = "disable" \/ ck'[c].ret = "slowOn"
                /\ timesOrPeriod' = 0 => (ck'[c].pc = "disable" /\ modMutex')
          /\ (ck[c].pc = "disable" /\ ck'[c].pc = "disable") =>
                /\ modMutex /\ modMutex'
                /\ UNCHANGED <<mode, timesOrPeriod>>
          /\ (ck[c].pc = "disable" /\ ck'[c].pc # "disable") =>
                /\ mode = "nTimes" /\ timesOrPeriod <= 0
                /\ ck'[c].ret = "slowOn"
                /\ ~fpInfo'.active
                /\ \A s \in Setters : st'[s].pc = st[s].pc
      ]_vars

\* the second check of setMode(nTimes, 2) has fired and is still open, and the
\* fail point is off without a further setMode call
C14_Witness ==
    /\ NoSetModeRunning /\ mode = "nTimes" /\ hist.n = 2 /\ timesOrPeriod = 0
    /\ ~fpInfo.active
    /\ \E c \in Checkers : ck[c].pc = "body" /\ ck[c].ret = "slowOn" /\ ck[c].sub

\* C15: the mode that a slow-path evaluation reads is never off
C15_NoEvaluationWithModeOff ==
    [][\A c \in Checkers :
          (ck[c].pc = "eval" /\ ck'[c].pc # "eval") => mode # "off"
      ]_vars

\* C16: activationFlag goes from false to true only in the last step of a
\* setMode call whose mode argument is not off; it goes from true to false
\* only in the first step of a setMode call or in the step with which an
\* nTimes evaluation that used up the count disables the fail point; a step of
\* a check that is no step of setMode never sets it
C16_FlagTransitions ==
    [][/\ (~fpInfo.active /\ fpInfo'.active) =>
              \E s \in Setters :
                  st[s].pc = "activate" /\ st[s].mode # "off" /\ st'[s].pc = "returned"
       /\ (fpInfo.active /\ ~fpInfo'.active) =>
              \/ \E s \in Setters : st[s].pc = "idle" /\ st'[s].pc = "drain"
              \/ \E c \in Checkers :
                    /\ ck[c].pc = "disable" /\ ck'[c].pc # "disable"
                    /\ mode = "nTimes" /\ timesOrPeriod <= 0
       /\ \A c \in Checkers :
              (ck'[c] # ck[c] /\ \A s \in Setters : st'[s].pc = st[s].pc) =>
                  (fpInfo'.active => fpInfo.active)
      ]_vars

\* the flag was set by setMode(nTimes, N) and cleared again by the check that
\* used up the count, with no other setMode call made; meanwhile checks of both
\* kinds were opened and closed
C16_Witness ==
    /\ \E s \in Setters : st[s].pc = "returned"
    /\ \E s \in Setters : st[s].pc = "idle"
    /\ mode = "nTimes" /\ hist.n >= 1 /\ timesOrPeriod = 0 /\ ~fpInfo.active
    /\ \E c \in Checkers :
          ck[c].op = "shouldFail" /\ ck[c].pc = "done" /\ ck[c].ret = "slowOn" /\ ck[c].closes = 1
    /\ \E c \in Checkers :
          ck[c].op = "block" /\ ck[c].pc = "done" /\ ck[c].ret = "slowOff" /\ ck[c].closes = 1

\* C17: no step of a check writes mode or payload; a step of a check changes
\* modeValue only if it is an evaluation in nTimes mode, and changes
\* activationFlag only if it is the self-disable that follows such an
\* evaluation; so an evaluation in alwaysOn or random mode, firing or not,
\* leaves mode, modeValue, payload and activationFlag as they were
C17_OnlyNTimesMutates ==
    [][\A c \in Checkers :
          (ck'[c] # ck[c] /\ \A s \in Setters : st'[s].pc = st[s].pc) =>
              /\ UNCHANGED <<mode, data>>
              /\ timesOrPeriod' # timesOrPeriod => (ck[c].pc = "eval" /\ mode = "nTimes")
              /\ fpInfo'.active # fpInfo.active => (ck[c].pc = "disable" /\ mode = "nTimes")
              /\ (ck[c].pc = "eval" /\ mode \in {"alwaysOn", "random"}) =>
                    /\ ck'[c].ret \in {"slowOn", "slowOff"}
                    /\ UNCHANGED <<mode, timesOrPeriod, data, modMutex>>
                    /\ fpInfo' = fpInfo
      ]_vars

\* under setMode(random) one check has fired and another has not, and the
\* fail point is still active
C17_Witness ==
    /\ NoSetModeRunning /\ mode = "random" /\ fpInfo.active
    /\ \E c \in Checkers : ck[c].sub /\ HasReturned(c) /\ ck[c].ret = "slowOn" /\ Open(c)
    /\ \E c \in Checkers : ck[c].sub /\ HasReturned(c) /\ ck[c].ret = "slowOff" /\ Open(c)

\* C18: refCount is the number of checks that have incremented it (and so have
\* received, or are about to receive, slowOff or slowOn) and have not yet
\* closed; it never leaves 0 .. the number of call sites, so it never goes
\* below zero; and a step that changes refCount changes it by one and leaves
\* the activation bit as it was
C18_RefCountIsOpenChecks ==
    /\ [](/\ fpInfo.ref = Cardinality(Holders)
          /\ \A c \in Checkers : Open(c) <=> (ck[c].incs = 1 /\ ck[c].closes = 0))
    /\ [][fpInfo'.ref # fpInfo.ref =>
              /\ fpInfo'.active = fpInfo.active
              /\ fpInfo'.ref = fpInfo.ref + 1 \/ fpInfo'.ref = fpInfo.ref - 1
         ]_vars

\* two checks are open at once, one that fired and one that returned slowOff,
\* after an earlier check was closed
C18_Witness ==
    /\ fpInfo.ref = 2
    /\ \E c \in Checkers : ck[c].ret = "slowOn" /\ Open(c)
    /\ \E c \in Checkers : ck[c].ret = "slowOff" /\ Open(c)
    /\ ~fpInfo.active

C20_NoFireAfterOff ==
    [][(NoSetModeRunning /\ mode = "off") =>
          \A c \in Checkers :
              /\ ck'[c].ret = "slowOn" => ck[c].ret = "slowOn"
              /\ (ck[c].op = "shouldFail" /\ ck[c].pc # "done" /\ ck'[c].pc = "done") =>
                    ~ck'[c].result
              /\ (ck[c].ret = "none" /\ ck'[c].ret # "none" /\ ck'[c].incs = 1) =>
                    (ck'[c].ret = "slowOff" /\ Open(c)')
      ]_vars

====
